---- MODULE Spec2Model ----
(***************************************************************************)
(* A model of the prefix tree of src/prefix_tree.rs: a Trie owning a root  *)
(* TrieNode, each TrieNode holding is_end_of_word and a map children from  *)
(* char to TrieNode, with the operations new, insert, search, starts_with. *)
(* A TrieNode is a record whose children field is a function from the set  *)
(* of chars that have a child to the child's record (the tree is owned by  *)
(* value, as in the source).                                               *)
(***************************************************************************)
EXTENDS Naturals, Sequences, FiniteSets, TLC

\* Longest word handed to insert, search or starts_with.
MaxLen == 2
\* Largest number of distinct words handed to insert.
MaxWords == 3

\* The chars the words are made of.
Chars == {"a", "b"}

\* Every word (sequence of chars) of at most MaxLen chars.
Words == UNION {[1..n -> Chars] : n \in 0..MaxLen}

\* p is a prefix of w (p = "" and p = w included).
IsPrefix(p, w) == Len(p) <= Len(w) /\ SubSeq(w, 1, Len(p)) = p

\* The prefixes of w.
Prefixes(w) == {SubSeq(w, 1, n) : n \in 0..Len(w)}

VARIABLES
    root,        \* Trie.root
    inserted,    \* history: the words that were passed to insert
    lastOp,      \* history: the last call, "new" | "insert" | "search" | "starts_with"
    lastArg,     \* history: the argument of the last call
    lastResult,  \* history: what the last search or starts_with returned
    prevRoot,    \* history: Trie.root as it was when the last call started
    twice        \* history: the last call and the one before were insert of one word

vars == <<root, inserted, lastOp, lastArg, lastResult, prevRoot, twice>>

\* TrieNode::default(): is_end_of_word false, no children.
DefaultNode == [is_end_of_word |-> FALSE, children |-> [c \in {} |-> FALSE]]

\* insert that replaces the child it walks through by a fresh node.
RECURSIVE insertOverwrite(_, _)
insertOverwrite(node, word) ==
    IF word = <<>>
    THEN [node EXCEPT !.is_end_of_word = TRUE]
    ELSE [node EXCEPT !.children =
            [c \in (DOMAIN node.children) \cup {Head(word)} |->
                IF c = Head(word)
                THEN insertOverwrite(DefaultNode, Tail(word))
                ELSE node.children[c]]]

\* insert that never sets is_end_of_word.
RECURSIVE insertNoFlag(_, _)
insertNoFlag(node, word) ==
    IF word = <<>>
    THEN node
    ELSE LET ch == Head(word)
             child == IF ch \in DOMAIN node.children
                      THEN node.children[ch] ELSE DefaultNode
         IN [node EXCEPT !.children =
                [c \in (DOMAIN node.children) \cup {ch} |->
                    IF c = ch THEN insertNoFlag(child, Tail(word))
                    ELSE node.children[c]]]

\* insert that flips is_end_of_word instead of setting it.
RECURSIVE insertToggle(_, _)
insertToggle(node, word) ==
    IF word = <<>>
    THEN [node EXCEPT !.is_end_of_word = ~node.is_end_of_word]
    ELSE LET ch == Head(word)
             child == IF ch \in DOMAIN node.children
                      THEN node.children[ch] ELSE DefaultNode
         IN [node EXCEPT !.children =
                [c \in (DOMAIN node.children) \cup {ch} |->
                    IF c = ch THEN insertToggle(child, Tail(word))
                    ELSE node.children[c]]]

\* Trie::insert from the node `node`: for each char of word, move to
\* children.entry(ch).or_default(); then set is_end_of_word on the last node.
RECURSIVE insert(_, _)
insert(node, word) ==
    IF word = <<>>
    THEN [node EXCEPT !.is_end_of_word = TRUE]
    ELSE LET ch == Head(word)
             child == IF ch \in DOMAIN node.children
                      THEN node.children[ch] ELSE DefaultNode
         IN [node EXCEPT !.children =
                [c \in (DOMAIN node.children) \cup {ch} |->
                    IF c = ch THEN insert(child, Tail(word))
                    ELSE node.children[c]]]

\* search that returns true whenever the whole word was consumed.
RECURSIVE searchNoFlag(_, _)
searchNoFlag(node, word) ==
    IF word = <<>>
    THEN TRUE
    ELSE IF Head(word) \in DOMAIN node.children
         THEN searchNoFlag(node.children[Head(word)], Tail(word))
         ELSE FALSE

\* Trie::search from the node `node`: follow children.get(ch) for each char,
\* false at the first missing child, else the last node's is_end_of_word.
RECURSIVE search(_, _)
search(node, word) ==
    IF word = <<>>
    THEN node.is_end_of_word
    ELSE IF Head(word) \in DOMAIN node.children
         THEN search(node.children[Head(word)], Tail(word))
         ELSE FALSE

\* starts_with that returns the last node's is_end_of_word.
RECURSIVE startsWithFlag(_, _)
startsWithFlag(node, prefix) ==
    IF prefix = <<>>
    THEN node.is_end_of_word
    ELSE IF Head(prefix) \in DOMAIN node.children
         THEN startsWithFlag(node.children[Head(prefix)], Tail(prefix))
         ELSE FALSE

\* starts_with that skips a char with no child instead of returning false.
RECURSIVE startsWithSkip(_, _)
startsWithSkip(node, prefix) ==
    IF prefix = <<>>
    THEN TRUE
    ELSE IF Head(prefix) \in DOMAIN node.children
         THEN startsWithSkip(node.children[Head(prefix)], Tail(prefix))
         ELSE startsWithSkip(node, Tail(prefix))

\* Trie::starts_with from the node `node`: follow children.get(ch) for each
\* char, false at the first missing child, else true.
RECURSIVE starts_with(_, _)
starts_with(node, prefix) ==
    IF prefix = <<>>
    THEN TRUE
    ELSE IF Head(prefix) \in DOMAIN node.children
         THEN starts_with(node.children[Head(prefix)], Tail(prefix))
         ELSE FALSE

\* The paths (char sequences from `node`) at which a TrieNode exists.
RECURSIVE NodePaths(_)
NodePaths(node) ==
    {<<>>} \cup UNION {{<<c>> \o p : p \in NodePaths(node.children[c])} :
                        c \in DOMAIN node.children}

\* The TrieNode at path p below `node` (p \in NodePaths(node)).
RECURSIVE NodeAt(_, _)
NodeAt(node, p) ==
    IF p = <<>> THEN node ELSE NodeAt(node.children[Head(p)], Tail(p))

\* Trie::new(): the root is a default TrieNode.
Init ==
    /\ root = DefaultNode
    /\ inserted = {}
    /\ lastOp = "new"
    /\ lastArg = <<>>
    /\ lastResult = FALSE
    /\ prevRoot = DefaultNode
    /\ twice = FALSE

\* A call trie.insert(word).
Insert(word) ==
    /\ word \in inserted \/ Cardinality(inserted) < MaxWords
    /\ root' = insert(root, word)
    /\ inserted' = inserted \cup {word}
    /\ lastOp' = "insert"
    /\ lastArg' = word
    /\ lastResult' = FALSE
    /\ prevRoot' = root
    /\ twice' = (lastOp = "insert" /\ lastArg = word)

\* A call trie.search(word).
Search(word) ==
    /\ lastResult' = search(root, word)
    /\ lastOp' = "search"
    /\ lastArg' = word
    /\ prevRoot' = root
    /\ twice' = FALSE
    /\ UNCHANGED <<root, inserted>>

\* A call trie.starts_with(prefix).
StartsWith(prefix) ==
    /\ lastResult' = starts_with(root, prefix)
    /\ lastOp' = "starts_with"
    /\ lastArg' = prefix
    /\ prevRoot' = root
    /\ twice' = FALSE
    /\ UNCHANGED <<root, inserted>>

Next ==
    \/ \E word \in Words : Insert(word)
    \/ \E word \in Words : Search(word)
    \/ \E prefix \in Words : StartsWith(prefix)

Spec == Init /\ [][Next]_vars

\* s and w share a first char and then part: neither is a prefix of the other.
Diverges(s, w) == ~IsPrefix(s, w) /\ ~IsPrefix(w, s) /\ Head(s) = Head(w)

\* The children-less TrieNodes below the root.
Leaves == {p \in NodePaths(root) : p # <<>> /\ DOMAIN NodeAt(root, p).children = {}}

\* C1: search(w) is true exactly for the words w that were passed to insert,
\* which are exactly the paths whose TrieNode exists with is_end_of_word set;
\* a call of search returns that value.
C1_SearchIffInserted ==
    /\ \A w \in Words :
        /\ search(root, w) <=> w \in inserted
        /\ search(root, w) <=>
             (w \in NodePaths(root) /\ NodeAt(root, w).is_end_of_word)
    /\ lastOp = "search" => (lastResult <=> lastArg \in inserted)

C1_Witness ==
    /\ lastOp = "search"
    /\ lastResult
    /\ Len(lastArg) = MaxLen
    /\ Cardinality(inserted) = MaxWords

C3_InsertContract ==
    lastOp = "insert" =>
        /\ search(root, lastArg)
        /\ \A p \in Prefixes(lastArg) : starts_with(root, p)

C3_Witness ==
    /\ lastOp = "insert"
    /\ Len(lastArg) = MaxLen
    /\ prevRoot # DefaultNode
    /\ root # prevRoot

\* C4: insert(w) done twice in a row leaves the tree that one insert(w) left,
\* from every reachable tree and for every w, so search and starts_with
\* answer the same for every string.
C4_InsertIdempotent ==
    /\ twice =>
        /\ root = prevRoot
        /\ NodePaths(root) = NodePaths(prevRoot)
        /\ \A s \in Words : /\ search(root, s) = search(prevRoot, s)
                            /\ starts_with(root, s) = starts_with(prevRoot, s)
    /\ \A w \in Words : insert(insert(root, w), w) = insert(root, w)

C4_Witness ==
    /\ twice
    /\ Len(lastArg) >= 2
    /\ Cardinality(inserted) = MaxWords

C6_Original ==
    \A w \in inserted : \A s \in Words :
        Diverges(s, w) => ~search(root, s) /\ ~starts_with(root, s)

\* C6 amended: a string s that diverges from some inserted word w and is a
\* prefix of no inserted word is answered false by search and by starts_with.
C6_DivergentFalse ==
    /\ \A s \in Words :
        ((\E w \in inserted : Diverges(s, w))
            /\ \A v \in inserted : ~IsPrefix(s, v))
        => ~search(root, s) /\ ~starts_with(root, s)
    /\ (/\ lastOp \in {"search", "starts_with"}
        /\ \E w \in inserted : Diverges(lastArg, w)
        /\ \A v \in inserted : ~IsPrefix(lastArg, v)) => ~lastResult

C6_Witness ==
    /\ lastOp = "starts_with"
    /\ ~lastResult
    /\ Cardinality(inserted) = MaxWords
    /\ \E w \in inserted : Diverges(lastArg, w)

\* C7: the root's is_end_of_word is true exactly when insert("") was called;
\* insert("") leaves the set of nodes as it was; search("") is the root's
\* is_end_of_word.
C7_EmptyWord ==
    /\ root.is_end_of_word <=> <<>> \in inserted
    /\ (lastOp = "insert" /\ lastArg = <<>>) =>
        /\ NodePaths(root) = NodePaths(prevRoot)
        /\ root.children = prevRoot.children
    /\ search(root, <<>>) = root.is_end_of_word
    /\ (lastOp = "search" /\ lastArg = <<>>) => lastResult = root.is_end_of_word

C7_Witness ==
    /\ lastOp = "insert"
    /\ lastArg = <<>>
    /\ ~prevRoot.is_end_of_word
    /\ DOMAIN prevRoot.children # {}

\* C8 as stated: at every depth, the root's depth 0 included, a node exists at
\* a path exactly when some inserted word has the path as a prefix.
C8_Original ==
    \A p \in Words :
        p \in NodePaths(root) <=> \E w \in inserted : IsPrefix(p, w)

\* C8 amended: the root exists in every state, and at every depth k >= 1 a
\* node exists at a path exactly when some inserted word has the path as a
\* prefix.
C8_NodeIffPrefix ==
    /\ <<>> \in NodePaths(root)
    /\ NodePaths(root) \subseteq Words
    /\ \A p \in Words \ {<<>>} :
        p \in NodePaths(root) <=> \E w \in inserted : IsPrefix(p, w)

C8_Witness ==
    /\ lastOp = "insert"
    /\ prevRoot # DefaultNode
    /\ Cardinality(NodePaths(root)) > Cardinality(NodePaths(prevRoot))
    /\ Cardinality(NodePaths(root)) >= 5

\* C9: every step leaves the tree as it was or removes no node and clears no
\* is_end_of_word, so a search or starts_with that is true before a step is
\* true after it.
C9_GrowOnly ==
    [][\/ root' = root
       \/ /\ \A p \in NodePaths(root) :
                /\ p \in NodePaths(root')
                /\ NodeAt(root, p).is_end_of_word
                     => NodeAt(root', p).is_end_of_word
          /\ \A w \in Words :
                /\ search(root, w) => search(root', w)
                /\ starts_with(root, w) => starts_with(root', w)]_vars

C9_Witness ==
    /\ lastOp = "insert"
    /\ root # prevRoot
    /\ \E p \in NodePaths(prevRoot) :
        /\ p # <<>>
        /\ p # lastArg
        /\ IsPrefix(p, lastArg)
        /\ NodeAt(prevRoot, p).is_end_of_word
        /\ DOMAIN NodeAt(prevRoot, p).children = {}

\* C10: every children-less node other than the root has is_end_of_word set,
\* so every node other than the root is on the path to an end-of-word node.
C10_LeavesAreWords ==
    /\ \A p \in Leaves : NodeAt(root, p).is_end_of_word
    /\ \A p \in NodePaths(root) \ {<<>>} :
        \E q \in NodePaths(root) :
            IsPrefix(p, q) /\ NodeAt(root, q).is_end_of_word

C10_Witness ==
    /\ lastOp = "insert"
    /\ Cardinality(Leaves) = MaxWords
    /\ \E p \in NodePaths(root) \ {<<>>} : ~NodeAt(root, p).is_end_of_word

====
